---- MODULE Spec2Model ----
(***************************************************************************)
(* The BC7215 driver (src/src/bc7215.cpp, src/src/bc7215.h): the framing   *)
(* state machine processData, the circular receive buffer, the mode pin    *)
(* and the packet accessors, together with the chip that feeds the UART.   *)
(***************************************************************************)
EXTENDS Integers, Sequences, FiniteSets, TLC

(***************************************************************************)
(* Program constants                                                       *)
(***************************************************************************)
BC7215_MAX_RX_DATA_SIZE == 48
FormatPktSize == 32 + 1
BC7215_BUFFER_SIZE == (BC7215_MAX_RX_DATA_SIZE + 3) + FormatPktSize
MOD_HIGH == -1
MOD_LOW == -2
BUSY_NC == -3
\* positions and counters are uint8_t unless the buffer is larger than 255
PosMod == IF BC7215_BUFFER_SIZE > 255 THEN 65536 ELSE 256

(***************************************************************************)
(* Bounds of the model                                                     *)
(***************************************************************************)
MaxQueue == 2
MaxTerms == 2
MaxChunk == 16
MaxBurst == 32
MaxAcks == 2

Byte == 0..255
Bit7(b) == b >= 128
Or80(b) == IF b >= 128 THEN b ELSE b + 128
And7f(b) == b % 128
CeilDiv8(x) == (x + 7) \div 8
Min(a, b) == IF a < b THEN a ELSE b

VARIABLES
    drv,            \* the fields of the BC7215 instance
    previousData,   \* static local of processData
    intBits,        \* width of int on the build target (16: AVR, 32: ESP)
    uartRx,         \* bytes the chip has sent that uart.read() has not taken yet
    chip,           \* wire bytes the chip is still going to send
    hist,           \* observer: the packet on the wire, as the protocol defines it
    got             \* what the last step delivered to its caller, if it was an
                    \* accessor that found its packet ready (NoRet otherwise)

vars == <<drv, previousData, intBits, uartRx, chip, hist, got>>

(***************************************************************************)
(* The driver as one record: the instance, the static and the build's int  *)
(***************************************************************************)
Mach == drv @@ [previousData |-> previousData, intBits |-> intBits]

Install(t) ==
    /\ drv' = [f \in DOMAIN drv |-> t[f]]
    /\ previousData' = t.previousData
    /\ intBits' = intBits

\* MOD reads LOW: the driver takes the chip to be in transmit mode
ModIsLow(t) == (t.modPin = MOD_LOW) \/ ((t.modPin >= 0) /\ (t.modLevel = "LOW"))
ModIsHigh(t) == (t.modPin = MOD_HIGH) \/ ((t.modPin >= 0) /\ (t.modLevel = "HIGH"))

\* uint16_t + 7 in the build's int: unsigned 16-bit arithmetic when int has 16 bits
Plus7Div8(t, x) == IF t.intBits = 16 THEN ((x + 7) % 65536) \div 8 ELSE (x + 7) \div 8

bufBackRead(t, pos, n) ==
    IF pos >= n THEN t.circularBuffer[pos - n]
    ELSE t.circularBuffer[BC7215_BUFFER_SIZE + pos - n]

\* an index outside the array reads an indeterminate value, written -1
bufRead(t, pos, n) ==
    LET i == IF pos + n >= BC7215_BUFFER_SIZE THEN pos + n - BC7215_BUFFER_SIZE ELSE pos + n
    IN IF i \in 0..(BC7215_BUFFER_SIZE - 1) THEN t.circularBuffer[i] ELSE -1

(***************************************************************************)
(* processData, receive mode, data == 0x7a                                 *)
(***************************************************************************)
\* a faulty size check (any packet of at least 33 bytes), for C2
FormatSizeAtLeast(t) == t.byteCount >= FormatPktSize

FormatSizeOk(t) == t.byteCount = FormatPktSize

\* a faulty bit length (high and low byte exchanged), for C9
BitLenSwapped(t, pos) == bufBackRead(t, pos, 1) * 256 + bufBackRead(t, pos, 0)

\* ((uint16_t)bufBackRead(pos, 0) << 8) | bufBackRead(pos, 1)
BitLenAt(t, pos) == bufBackRead(t, pos, 0) * 256 + bufBackRead(t, pos, 1)

\* 0x7a 0x7a: the mark of a format packet
SecondTerminator(t) ==
    LET t1 == [t EXCEPT !.dataPktReady = FALSE]
        t2 == IF FormatSizeOk(t1) THEN [t1 EXCEPT !.formatPktReady = TRUE] ELSE t1
    IN IF (t2.byteCount + t2.datCount <= BC7215_BUFFER_SIZE)
          /\ ~Bit7(bufBackRead(t2, t2.datEndPos, 2))
       THEN [t2 EXCEPT !.bitLen = BitLenAt(t2, t2.datEndPos),
                       !.dataPktReady = TRUE]
       ELSE t2

LengthOk(t, temp16) == Plus7Div8(t, temp16) + 3 = t.byteCount

\* the first 0x7a received
FirstTerminator(t) ==
    IF ~Bit7(bufBackRead(t, t.lastWritingPos, 2))
    THEN LET temp16 == BitLenAt(t, t.lastWritingPos)
         IN IF LengthOk(t, temp16)
            THEN [t EXCEPT !.bitLen = temp16,
                           !.dataPktReady = TRUE,
                           !.datStartPos = t.startPos,
                           !.datEndPos = t.lastWritingPos,
                           !.datCount = t.byteCount]
            ELSE t
    ELSE t

\* a faulty terminator: the packet stays in progress
TerminatorKeepsStarted(t) ==
    LET u == IF ~t.overLap
             THEN (IF t.previousData = 122 THEN SecondTerminator(t) ELSE FirstTerminator(t))
             ELSE t
    IN [u EXCEPT !.previousData = 122]

Terminator(t) ==
    LET u == IF ~t.overLap
             THEN (IF t.previousData = 122 THEN SecondTerminator(t) ELSE FirstTerminator(t))
             ELSE t
    IN [u EXCEPT !.previousData = 122, !.pktStarted = FALSE]

(***************************************************************************)
(* processData, receive mode, data /= 0x7a                                 *)
(***************************************************************************)
\* a faulty start of a packet: the overflow of the packet before it survives
StartPacketKeepsOverLap(t) ==
    IF ~t.pktStarted
    THEN [t EXCEPT !.pktStarted = TRUE,
                   !.byteCount = 0,
                   !.bitLen = 0,
                   !.dataPktReady = FALSE,
                   !.formatPktReady = FALSE,
                   !.startPos = IF (t.lastWritingPos + 1) % PosMod >= BC7215_BUFFER_SIZE
                                THEN 0 ELSE (t.lastWritingPos + 1) % PosMod]
    ELSE t

StartPacket(t) ==
    IF ~t.pktStarted
    THEN [t EXCEPT !.pktStarted = TRUE,
                   !.overLap = FALSE,
                   !.byteCount = 0,
                   !.bitLen = 0,
                   !.dataPktReady = FALSE,
                   !.formatPktReady = FALSE,
                   !.startPos = IF (t.lastWritingPos + 1) % PosMod >= BC7215_BUFFER_SIZE
                                THEN 0 ELSE (t.lastWritingPos + 1) % PosMod]
    ELSE t

\* a faulty overflow flag (recomputed from the counter at every byte), for C3
OverLapNotSticky(t, count) == count > BC7215_BUFFER_SIZE

OverLapAfter(t, count) == IF count > BC7215_BUFFER_SIZE THEN TRUE ELSE t.overLap

\* save data to buffer
StoreByte(t, data) ==
    LET inc == (t.lastWritingPos + 1) % PosMod
        pos == IF inc >= BC7215_BUFFER_SIZE THEN 0 ELSE inc
        count == (t.byteCount + 1) % PosMod
    IN [t EXCEPT !.lastWritingPos = pos,
                 !.circularBuffer = [t.circularBuffer EXCEPT ![pos] = data],
                 !.byteCount = count,
                 !.overLap = OverLapAfter(t, count)]

\* a faulty destuffing (the escaped byte is stored as received), for C10
DestuffNothing(t, data) == data

Destuff(t, data) == IF t.previousData = 123 THEN And7f(data) ELSE data

NonTerminator(t, data) ==
    LET u == StartPacket(t)
    IN IF data = 123
       THEN [u EXCEPT !.previousData = 123]
       ELSE StoreByte([u EXCEPT !.previousData = data], Destuff(u, data))

\* faulty transmit-mode branches: any byte completes the command; a byte that
\* is not 0x7a is received as in receive mode
TransmitByteAny(t, data) == [t EXCEPT !.cmdComplete = TRUE]
TransmitByteStored(t, data) ==
    IF data = 122 THEN [t EXCEPT !.cmdComplete = TRUE] ELSE NonTerminator(t, data)

TransmitByte(t, data) == IF data = 122 THEN [t EXCEPT !.cmdComplete = TRUE] ELSE t

processData(t, data) ==
    IF ModIsLow(t)
    THEN TransmitByte(t, data)
    ELSE (IF data = 122 THEN Terminator(t) ELSE NonTerminator(t, data))

\* a faulty drain: only the byte that arrived last is processed
statusUpdateLast(t, q) == IF q = <<>> THEN t ELSE processData(t, q[Len(q)])

RECURSIVE statusUpdate(_, _)
statusUpdate(t, q) ==
    IF q = <<>> THEN t ELSE statusUpdate(processData(t, Head(q)), Tail(q))

(***************************************************************************)
(* The chip: what it is going to put on the wire                           *)
(***************************************************************************)
byteStuffingSend(data) ==
    IF (data = 122) \/ (data = 123) THEN <<123, Or80(data)>> ELSE <<data>>

Ramp(base, n) == [i \in 1..n |-> (base + i - 1) % 256]
Fill(v, n) == [i \in 1..n |-> v]

NoRet == [op |-> "none"]

(***************************************************************************)
(* The observer: the packets on the wire as the protocol defines them,     *)
(* kept beside the driver and never read by it.                            *)
(*   n, pkt    destuffed bytes of the packet since it started from idle    *)
(*   terms     consecutive 0x7a received after its last byte (at most 3)   *)
(*   last3     the last three destuffed bytes received                     *)
(*   cut       setTx was called since the packet started                   *)
(*   idx       number of packets started so far                            *)
(*   acc       the last data packet that passed the protocol's validation  *)
(*   adj, d    the packet before this one was closed by a single 0x7a and  *)
(*             passed the validation; d is that packet                     *)
(*   fresh     no accessor, clear or mode call since the last byte         *)
(*   over      the packet has more bytes than the buffer holds             *)
(*   mark      the byte whose round trip is followed (SpecStuff), the      *)
(*             command whose completion is followed (SpecTx)               *)
(***************************************************************************)
NoPkt == [ok |-> FALSE, status |-> 0, bitLen |-> 0, payload |-> <<>>, count |-> 0]

HistInit ==
    [inPkt |-> FALSE, esc |-> FALSE, n |-> 0, pkt |-> <<>>, terms |-> 0,
     last3 |-> <<0, 0, 0>>, cut |-> FALSE, acc |-> NoPkt, closedOk |-> FALSE,
     adj |-> FALSE, d |-> NoPkt, fresh |-> FALSE, over |-> FALSE, idx |-> 0,
     mark |-> NoRet]

WireBitLen(h) == h.last3[2] + 256 * h.last3[3]

\* the validation the protocol asks for at the terminator of a data packet
WireValid(h) ==
    /\ h.n <= BC7215_BUFFER_SIZE
    /\ ~Bit7(h.last3[1])
    /\ h.n = CeilDiv8(WireBitLen(h)) + 3

ObserveTerminator(h) ==
    LET first == h.terms = 0
        okNow == first /\ WireValid(h)
    IN [h EXCEPT !.inPkt = FALSE,
                 !.esc = FALSE,
                 !.terms = IF h.terms < 3 THEN h.terms + 1 ELSE 3,
                 !.closedOk = IF first THEN okNow ELSE @,
                 !.acc = IF okNow
                         THEN [ok |-> TRUE, status |-> h.last3[1], bitLen |-> WireBitLen(h),
                               payload |-> SubSeq(h.pkt, 1, h.n - 3), count |-> h.n]
                         ELSE @,
                 !.fresh = TRUE]

ObserveByte(h, data) ==
    LET g == IF h.inPkt THEN h
             ELSE [h EXCEPT !.inPkt = TRUE, !.n = 0, !.pkt = <<>>, !.cut = FALSE,
                            !.over = FALSE, !.idx = @ + 1,
                            !.adj = (h.terms = 1) /\ h.closedOk /\ ~h.cut,
                            !.d = IF (h.terms = 1) /\ h.closedOk /\ ~h.cut
                                  THEN h.acc ELSE NoPkt]
        v == IF g.esc THEN And7f(data) ELSE data
    IN IF data = 123
       THEN [g EXCEPT !.esc = TRUE, !.terms = 0, !.fresh = TRUE]
       ELSE [g EXCEPT !.esc = FALSE,
                      !.terms = 0,
                      !.n = @ + 1,
                      !.over = g.n + 1 > BC7215_BUFFER_SIZE,
                      !.pkt = IF g.n + 1 > BC7215_BUFFER_SIZE THEN <<>> ELSE Append(@, v),
                      !.last3 = <<@[2], @[3], v>>,
                      !.fresh = TRUE]

\* a command the observer follows is acknowledged by a 0x7a in transmit mode
Acked(m) == IF m.op = "cmd" THEN [m EXCEPT !.acked = TRUE] ELSE m

Observe(h, t, data) ==
    IF ModIsLow(t) THEN (IF data = 122 THEN [h EXCEPT !.mark = Acked(@)] ELSE h)
    ELSE IF data = 122 THEN ObserveTerminator(h) ELSE ObserveByte(h, data)

RECURSIVE ObserveAll(_, _, _)
ObserveAll(h, t, q) ==
    IF q = <<>> THEN h
    ELSE ObserveAll(Observe(h, t, Head(q)), processData(t, Head(q)), Tail(q))

\* modLevel, busyLevel: the electrical levels of the MOD and BUSY pins
DrvInit(mp, bp) ==
    [modPin |-> mp,
     busyPin |-> bp,
     modLevel |-> "HIGH",
     busyLevel |-> "LOW",
     formatPktReady |-> FALSE,
     dataPktReady |-> FALSE,
     pktStarted |-> FALSE,
     overLap |-> FALSE,
     cmdComplete |-> FALSE,
     bitLen |-> 0,
     circularBuffer |-> [i \in 0..(BC7215_BUFFER_SIZE - 1) |-> 0],
     startPos |-> 0,
     datStartPos |-> 0,
     lastWritingPos |-> 0,
     datEndPos |-> 0,
     byteCount |-> 0,
     datCount |-> 0]

(***************************************************************************)
(* Accessors, applied to the driver after statusUpdate                     *)
(***************************************************************************)
\* for (i = 0; i < datCount - 3; i++): the number of payload bytes copied
CopyCount(t) == IF t.datCount - 3 > 0 THEN t.datCount - 3 ELSE 0

\* a faulty getData that clears format-ready as well
getDataClearsFormat(t) ==
    IF t.dataPktReady
    THEN [t |-> [t EXCEPT !.dataPktReady = FALSE, !.formatPktReady = FALSE],
          val |-> bufBackRead(t, t.datEndPos, 2),
          bitLenSet |-> TRUE,
          bitLen |-> t.bitLen,
          data |-> [i \in 1..CopyCount(t) |-> bufRead(t, t.datStartPos, i - 1)]]
    ELSE [t |-> t, val |-> 255, bitLenSet |-> FALSE, bitLen |-> 0, data |-> <<>>]

getDataCopy(t) ==
    IF t.dataPktReady
    THEN [t |-> [t EXCEPT !.dataPktReady = FALSE],
          val |-> bufBackRead(t, t.datEndPos, 2),
          bitLenSet |-> TRUE,
          bitLen |-> t.bitLen,
          data |-> [i \in 1..CopyCount(t) |-> bufRead(t, t.datStartPos, i - 1)]]
    ELSE [t |-> t, val |-> 255, bitLenSet |-> FALSE, bitLen |-> 0, data |-> <<>>]

RawSize(t, size) ==
    IF size > Plus7Div8(t, t.bitLen) THEN Plus7Div8(t, t.bitLen) ELSE size

getRawCopy(t, size) ==
    IF t.dataPktReady
    THEN [t |-> [t EXCEPT !.dataPktReady = FALSE],
          val |-> RawSize(t, size),
          data |-> [i \in 1..RawSize(t, size) |->
                        bufRead(t, t.datStartPos, (i - 1) % PosMod)]]
    ELSE [t |-> t, val |-> 0, data |-> <<>>]

getFormatCopy(t) ==
    IF t.formatPktReady
    THEN [t |-> [t EXCEPT !.formatPktReady = FALSE],
          val |-> bufRead(t, t.startPos, 0),
          data |-> [i \in 1..FormatPktSize |-> bufRead(t, t.startPos, i - 1)]]
    ELSE [t |-> t, val |-> 255, data |-> <<>>]

dataReadyValue(t) == t.dataPktReady

formatReadyValue(t) == t.formatPktReady

getLenValue(t) == IF t.dataPktReady THEN t.bitLen ELSE 0

dpketSizeValue(t) ==
    IF t.dataPktReady THEN (Plus7Div8(t, t.bitLen) + 2) % 65536 ELSE 0

(***************************************************************************)
(* Inputs: what the chip sends during one reception.  A reception is up to *)
(* three packets, each closed by one to MaxTerms terminators:              *)
(*   an optional filler that moves the write position towards the end of   *)
(*   the array, a packet, and what follows it.                             *)
(***************************************************************************)
Pkt(bytes, next) == [bytes |-> bytes, next |-> next]

DataBytes(payload, status, L) == payload \o <<status, L % 256, L \div 256>>

\* data packets that pass validation
ValidData ==
    { DataBytes(<<255>>, 0, 2),
      DataBytes(Ramp(121, 3), 53, 24),
      DataBytes(<<>>, 0, 0),
      DataBytes(Ramp(121, 48), 0, 384),
      DataBytes(Ramp(121, 49), 0, 392) }

\* data packets that do not: error bit, length mismatch, a bit length that
\* wraps in 16-bit arithmetic, and the byte order 0x00 0x02 0xFF 0x00
BadData ==
    { DataBytes(<<255>>, 128, 8),
      DataBytes(Ramp(121, 2), 0, 8),
      DataBytes(<<>>, 0, 65535),
      <<0, 2, 255, 0>> }

\* format packets of 33 bytes; the second ends like a data packet of 240 bits
Formats33 == { Ramp(96, 30) \o <<1, 2, 3>>, Ramp(96, 30) \o <<0, 240, 0>> }

FormatsOff == { Ramp(96, 29) \o <<1, 2, 3>>, Ramp(96, 31) \o <<1, 2, 3>> }

\* packets longer than the buffer, whose last bytes would pass the length
\* check or the format size check once the byte counter has wrapped
Longs ==
    { Fill(1, 82) \o <<0, 144, 2>>,
      Fill(1, 286) \o <<0, 240, 0>>,
      Fill(1, 289) \o <<0, 8, 1>> }

\* what the chip sends when reception is resumed after an interruption
Resumed == { DataBytes(<<255>>, 0, 2), Ramp(200, 30) \o <<1, 2, 3>> }

Shifts == { Fill(1, 60), Fill(1, 82) }

Mains ==
    {Pkt(b, "afterValid") : b \in ValidData}
    \cup {Pkt(b, "afterBad") : b \in BadData}
    \cup {Pkt(b, "end") : b \in Formats33 \cup FormatsOff \cup {<<1>>}}
    \cup {Pkt(<<1, 122, 1>>, "cuttable")}

Menu(stage) ==
    CASE stage = "start" ->
            {Pkt(b, "shifted") : b \in Shifts} \cup Mains
            \cup {Pkt(b, "afterJunk") : b \in Longs}
      [] stage = "shifted" -> Mains
      [] stage = "afterValid" ->
            {Pkt(b, "end") : b \in Formats33} \cup {Pkt(Fill(1, 80), "afterJunk")}
      [] stage = "afterBad" -> {Pkt(Ramp(96, 30) \o <<1, 2, 3>>, "end")}
      [] stage = "afterJunk" -> {Pkt(<<1>>, "end"), Pkt(<<122>>, "end")}
      [] stage = "afterCut" -> {Pkt(b, "end") : b \in Resumed}
      [] OTHER -> {}

\* wire: destuffed bytes still to send; esc: 0x7b sent for the first of them;
\* acks: bytes sent in transmit mode
ChipInit == [stage |-> "start", wire |-> <<>>, esc |-> FALSE, terms |-> 0, acks |-> 0]

RawSizes == {0, 1, 2, 512}

\* MOD and BUSY are GPIOs of the host (pins 0 and 4), as in the example sketches
ModPins == {0}
BusyPins == {4}

Init ==
    /\ drv \in {DrvInit(mp, bp) : mp \in ModPins, bp \in BusyPins}
    /\ previousData = 0
    /\ intBits \in {16, 32}
    /\ uartRx = <<>>
    /\ chip = ChipInit
    /\ hist = HistInit
    /\ got = NoRet

(***************************************************************************)
(* The chip (it sends only while MOD is high)                              *)
(***************************************************************************)
ChipCanSend == ModIsHigh(Mach) /\ Len(uartRx) < MaxQueue

\* the chip sends the next wire byte of the packet bytes w
SendFrom(w, stage) ==
    LET enc == byteStuffingSend(Head(w))
    IN IF Len(enc) = 2 /\ ~chip.esc
       THEN /\ uartRx' = Append(uartRx, enc[1])
            /\ chip' = [chip EXCEPT !.stage = stage, !.wire = w, !.esc = TRUE, !.terms = 0]
       ELSE /\ uartRx' = Append(uartRx, enc[Len(enc)])
            /\ chip' = [chip EXCEPT !.stage = stage, !.wire = Tail(w), !.esc = FALSE, !.terms = 0]

\* the chip starts its next packet and sends the first byte of it
ChipStart ==
    /\ ChipCanSend
    /\ chip.wire = <<>>
    /\ (chip.stage = "start") \/ (chip.terms >= 1)
    /\ \E p \in Menu(chip.stage) : SendFrom(p.bytes, p.next)
    /\ got' = NoRet
    /\ UNCHANGED <<drv, previousData, intBits, hist>>

ChipSend ==
    /\ ChipCanSend
    /\ chip.wire /= <<>>
    /\ SendFrom(chip.wire, chip.stage)
    /\ got' = NoRet
    /\ UNCHANGED <<drv, previousData, intBits, hist>>

ChipTerminate ==
    /\ ChipCanSend
    /\ chip.wire = <<>>
    /\ chip.stage /= "start"
    /\ chip.terms < MaxTerms
    /\ uartRx' = Append(uartRx, 122)
    /\ chip' = [chip EXCEPT !.terms = @ + 1]
    /\ got' = NoRet
    /\ UNCHANGED <<drv, previousData, intBits, hist>>

(***************************************************************************)
(* The driver's operations                                                 *)
(***************************************************************************)
Drained == statusUpdate(Mach, uartRx)
Observed == ObserveAll(hist, Mach, uartRx)
Touched(h) == [h EXCEPT !.fresh = FALSE]

\* dataReady, formatReady, getLen, dpketSize: statusUpdate, then a value that is
\* a function of the driver's state (dataReadyValue, ..., dpketSizeValue)
Query ==
    /\ Install(Drained)
    /\ uartRx' = <<>>
    /\ hist' = Observed
    /\ got' = NoRet
    /\ UNCHANGED chip

getData ==
    LET r == getDataCopy(Drained)
    IN /\ Install(r.t)
       /\ uartRx' = <<>>
       /\ hist' = IF Drained.dataPktReady THEN Touched(Observed) ELSE Observed
       /\ got' = IF Drained.dataPktReady
                 THEN [op |-> "getData", val |-> r.val, bitLen |-> r.bitLen, data |-> r.data]
                 ELSE NoRet
       /\ UNCHANGED chip

\* the requested size is read only when a data packet is ready
getRaw ==
    \E size \in (IF Drained.dataPktReady THEN RawSizes ELSE {0}) :
        LET r == getRawCopy(Drained, size)
        IN /\ Install(r.t)
           /\ uartRx' = <<>>
           /\ hist' = IF Drained.dataPktReady THEN Touched(Observed) ELSE Observed
           /\ got' = IF Drained.dataPktReady
                     THEN [op |-> "getRaw", size |-> size, val |-> r.val, data |-> r.data]
                     ELSE NoRet
           /\ UNCHANGED chip

getFormat ==
    LET r == getFormatCopy(Drained)
    IN /\ Install(r.t)
       /\ uartRx' = <<>>
       /\ hist' = IF Drained.formatPktReady THEN Touched(Observed) ELSE Observed
       /\ got' = IF Drained.formatPktReady
                 THEN [op |-> "getFormat", val |-> r.val, data |-> r.data]
                 ELSE NoRet
       /\ UNCHANGED chip

clrData ==
    /\ Install([Mach EXCEPT !.dataPktReady = FALSE])
    /\ hist' = IF drv.dataPktReady THEN Touched(hist) ELSE hist
    /\ got' = NoRet
    /\ UNCHANGED <<uartRx, chip>>

clrFormat ==
    /\ Install([Mach EXCEPT !.formatPktReady = FALSE])
    /\ hist' = IF drv.formatPktReady THEN Touched(hist) ELSE hist
    /\ got' = NoRet
    /\ UNCHANGED <<uartRx, chip>>

\* faulty setTx: the ready flags survive; the packet in progress survives
setTxKeepsReady(t) ==
    [t EXCEPT !.modLevel = IF t.modPin >= 0 THEN "LOW" ELSE @,
              !.pktStarted = FALSE,
              !.cmdComplete = TRUE]
setTxKeepsStarted(t) ==
    [t EXCEPT !.modLevel = IF t.modPin >= 0 THEN "LOW" ELSE @,
              !.dataPktReady = FALSE,
              !.formatPktReady = FALSE,
              !.cmdComplete = TRUE]

setTxState(t) ==
    [t EXCEPT !.modLevel = IF t.modPin >= 0 THEN "LOW" ELSE @,
              !.dataPktReady = FALSE,
              !.formatPktReady = FALSE,
              !.pktStarted = FALSE,
              !.cmdComplete = TRUE]

\* setTx interrupts the reception: the chip drops the packet it was sending.
\* Reception is resumed afterwards (afterCut) when the interrupted packet is
\* the one marked "cuttable"; after any other packet it is over.
\* With MOD wired to a fixed level the chip does not see the call.
CutStage == IF chip.stage = "cuttable" /\ chip.wire /= <<>> THEN "afterCut" ELSE "end"

setTx ==
    /\ Install(setTxState(Mach))
    /\ chip' = IF drv.modPin >= 0
               THEN [chip EXCEPT !.stage = CutStage, !.wire = <<>>, !.esc = FALSE,
                                 !.terms = IF CutStage = "afterCut" THEN 1 ELSE MaxTerms]
               ELSE chip
    /\ hist' = [hist EXCEPT !.fresh = FALSE, !.cut = TRUE, !.inPkt = FALSE, !.esc = FALSE,
                            !.mark = NoRet]
    /\ got' = NoRet
    /\ UNCHANGED uartRx

setRxState(t) == [t EXCEPT !.modLevel = IF t.modPin >= 0 THEN "HIGH" ELSE @]

setRx ==
    /\ Install(setRxState(Mach))
    /\ hist' = [hist EXCEPT !.mark = NoRet]
    /\ got' = NoRet
    /\ UNCHANGED <<uartRx, chip>>

Next ==
    \/ ChipStart
    \/ ChipSend
    \/ ChipTerminate
    \/ Query
    \/ getData
    \/ getRaw
    \/ getFormat
    \/ clrData
    \/ clrFormat
    \/ setTx
    \/ setRx

Spec == Init /\ [][Next]_vars

(***************************************************************************)
(* The round trip of one byte through byteStuffingSend and processData:    *)
(* the chip sends a first byte, which starts a packet, and then any byte.  *)
(***************************************************************************)
StuffContexts == {1, 122, 123, 250}

StuffBegin ==
    /\ ChipCanSend
    /\ chip.stage = "start"
    /\ \E c \in StuffContexts : SendFrom(<<c>>, "context")
    /\ got' = NoRet
    /\ UNCHANGED <<drv, previousData, intBits, hist>>

StuffProbe ==
    /\ ChipCanSend
    /\ chip.stage = "context"
    /\ chip.wire = <<>>
    /\ uartRx = <<>>
    /\ drv.pktStarted
    /\ \E b \in Byte :
          /\ SendFrom(<<b>>, "probe")
          /\ hist' = [hist EXCEPT !.mark = [op |-> "stuff", b |-> b,
                                            enc |-> byteStuffingSend(b),
                                            count |-> drv.byteCount,
                                            pos |-> drv.lastWritingPos,
                                            buf |-> drv.circularBuffer]]
    /\ got' = NoRet
    /\ UNCHANGED <<drv, previousData, intBits>>

NextStuff ==
    \/ StuffBegin
    \/ StuffProbe
    \/ ChipSend
    \/ Query

SpecStuff == Init /\ [][NextStuff]_vars

(***************************************************************************)
(* The commands the driver writes to the UART, and the queries of the      *)
(* transmit side.  A command run gives the driver after the call and the   *)
(* bytes written, in order.                                                *)
(***************************************************************************)
\* sendOneByte waits while a connected BUSY pin reads HIGH
CanWrite(t) == (t.busyPin = BUSY_NC) \/ (t.busyLevel = "LOW")

sendOneByte(data) == <<data>>

\* byteStuffingSend applied to the bytes of s in order: two slots for each
\* byte, the first one empty (-1) when the byte is sent as it is
StuffedBytes(s) ==
    LET slots == [k \in 1..(2 * Len(s)) |->
                    LET enc == byteStuffingSend(s[(k + 1) \div 2])
                    IN IF k % 2 = 0 THEN enc[Len(enc)]
                       ELSE IF Len(enc) = 2 THEN enc[1] ELSE -1]
    IN SelectSeq(slots, LAMBDA x : x /= -1)

\* the bytes of a bc7215DataVarPkt_t in memory: bitLen (low byte first), data
SourceBytes(source) == <<source.bitLen % 256, source.bitLen \div 256>> \o source.data

\* a faulty loadFormat that writes in either mode
loadFormatAnyMode(t, source) ==
    [t |-> t, out |-> sendOneByte(246) \o sendOneByte(1) \o StuffedBytes(SubSeq(source, 1, FormatPktSize))]

loadFormatRun(t, source) ==
    IF ModIsLow(t)
    THEN [t |-> t,
          out |-> sendOneByte(246) \o sendOneByte(1)
                  \o StuffedBytes(SubSeq(source, 1, FormatPktSize))]
    ELSE [t |-> t, out |-> <<>>]

\* a faulty range check (bit lengths below 8 accepted), for C11
BitLenAny(bitLen) == bitLen < 4096

BitLenSendable(bitLen) == (bitLen >= 8) /\ (bitLen < 4096)

irTxRun(t, source) ==
    IF ModIsLow(t) /\ BitLenSendable(source.bitLen)
    THEN [t |-> [t EXCEPT !.cmdComplete = FALSE],
          out |-> sendOneByte(245) \o sendOneByte(2)
                  \o StuffedBytes(SubSeq(SourceBytes(source), 1,
                                         2 + Plus7Div8(t, source.bitLen)))]
    ELSE [t |-> t, out |-> <<>>]

\* size * 8 in the build's int
Times8(t, size) == IF t.intBits = 16 THEN (size * 8) % 65536 ELSE size * 8

\* a faulty header (the byte count sent in place of the bit count), for C12
RawHeaderBytes(t, size) == <<size % 256, (size \div 256) % 256>>

\* (size * 8) & 0xff, (size * 8) >> 8 as uint8_t
RawHeader(t, size) == <<Times8(t, size) % 256, (Times8(t, size) \div 256) % 256>>

sendRawRun(t, source, size) ==
    IF ModIsLow(t) /\ (size < 512)
    THEN [t |-> [t EXCEPT !.cmdComplete = FALSE],
          out |-> sendOneByte(245) \o sendOneByte(2)
                  \o StuffedBytes(RawHeader(t, size))
                  \o StuffedBytes(SubSeq(source, 1, size))]
    ELSE [t |-> t, out |-> <<>>]

setShutDownRun(t) ==
    [t |-> [t EXCEPT !.cmdComplete = FALSE],
     out |-> IF ModIsLow(t) THEN sendOneByte(247) \o sendOneByte(0) ELSE <<>>]

\* a faulty setRxMode that writes in either mode
setRxModeAnyMode(t, mode) == [t |-> t, out |-> sendOneByte(mode)]

setRxModeRun(t, mode) ==
    [t |-> t, out |-> IF ModIsHigh(t) THEN sendOneByte(mode) ELSE <<>>]

cmdCompletedValue(t) == t.cmdComplete

\* a faulty busy query (the level of a connected BUSY pin), for C18
isBusyFromPin(t) ==
    IF t.busyPin >= 0 THEN t.busyLevel = "HIGH"
    ELSE IF ModIsLow(t) THEN ~t.cmdComplete ELSE t.pktStarted

isBusyValue(t) == IF ModIsLow(t) THEN ~t.cmdComplete ELSE t.pktStarted

(***************************************************************************)
(* Inputs of the commands                                                  *)
(***************************************************************************)
TxPacket(L, n) == [bitLen |-> L, data |-> Ramp(121, n)]

\* bit lengths around both ends of the range; each packet holds one byte more
\* than the bit length asks for
TxPackets ==
    { TxPacket(7, 2), TxPacket(8, 2), TxPacket(9, 3), TxPacket(4095, 513), TxPacket(4096, 513) }

\* byte counts around 512, with a source of that many bytes (at most 512)
RawTxSizes == {0, 3, 511, 512}
RawSource(size) == Ramp(121, IF size > 512 THEN 512 ELSE size)

TxFormats == {Ramp(96, 33)}

RxModes == {1}

\* what the chip sends in receive mode, as wire bytes: a data packet, the
\* start of a data packet, a format packet
TxMenu ==
    { <<0, 0, 0, 122>>,
      <<0, 0>>,
      Fill(0, 33) \o <<122, 122>> }

TxModPins == {0, MOD_HIGH, MOD_LOW}
TxBusyPins == {4, BUSY_NC}

InitTx ==
    /\ drv \in {DrvInit(mp, bp) : mp \in TxModPins, bp \in TxBusyPins}
    /\ previousData = 0
    /\ intBits \in {16, 32}
    /\ uartRx = <<>>
    /\ chip = ChipInit
    /\ hist = HistInit
    /\ got = NoRet

(***************************************************************************)
(* Actions of the transmit side                                            *)
(***************************************************************************)
\* the command op with input inp ran as r; follow says whether the completion
\* of the command is to be followed from here on.  got holds the call and what
\* it wrote until the sketch goes on (Return)
Command(op, inp, r, follow) ==
    /\ got = NoRet
    /\ (r.out /= <<>>) => CanWrite(Mach)
    /\ Install(r.t)
    /\ got' = [op |-> op, inp |-> inp, out |-> r.out, pre |-> Mach]
    /\ hist' = [hist EXCEPT !.mark = IF follow = "yes" THEN [op |-> "cmd", acked |-> FALSE]
                                     ELSE IF follow = "no" THEN NoRet
                                     ELSE @]
    /\ UNCHANGED <<uartRx, chip>>

irTx ==
    \E source \in TxPackets :
        LET r == irTxRun(Mach, source)
        IN Command("irTx", source, r, IF r.out /= <<>> THEN "yes" ELSE "same")

sendRaw ==
    \E size \in RawTxSizes :
        LET r == sendRawRun(Mach, RawSource(size), size)
        IN Command("sendRaw", [size |-> size, source |-> RawSource(size)], r,
                   IF r.out /= <<>> THEN "yes" ELSE "same")

loadFormat ==
    \E source \in TxFormats :
        Command("loadFormat", source, loadFormatRun(Mach, source), "same")

setShutDown ==
    Command("setShutDown", <<>>, setShutDownRun(Mach),
            IF ModIsLow(Mach) THEN "yes" ELSE "no")

setRxMode ==
    \E mode \in RxModes :
        Command("setRxMode", mode, setRxModeRun(Mach, mode), "same")

\* the chip has a packet to send in receive mode
TxChipStart ==
    /\ ModIsHigh(Mach)
    /\ chip.stage = "start"
    /\ \E p \in TxMenu : chip' = [chip EXCEPT !.stage = "sent", !.wire = p]
    /\ got' = NoRet
    /\ UNCHANGED <<drv, previousData, intBits, uartRx, hist>>

\* the chip sends up to MaxChunk wire bytes before the driver looks again
TxChipSend ==
    /\ ModIsHigh(Mach)
    /\ chip.wire /= <<>>
    /\ uartRx = <<>>
    /\ uartRx' = SubSeq(chip.wire, 1, Min(MaxChunk, Len(chip.wire)))
    /\ chip' = [chip EXCEPT !.wire = SubSeq(@, Min(MaxChunk, Len(@)) + 1, Len(@))]
    /\ got' = NoRet
    /\ UNCHANGED <<drv, previousData, intBits, hist>>

\* in transmit mode the chip answers with 0x7a; any other byte is noise
TxChipAck ==
    /\ ModIsLow(Mach)
    /\ Len(uartRx) < MaxQueue
    /\ chip.acks < MaxAcks
    /\ \E b \in {122, 1} : uartRx' = Append(uartRx, b)
    /\ chip' = [chip EXCEPT !.acks = @ + 1]
    /\ got' = NoRet
    /\ UNCHANGED <<drv, previousData, intBits, hist>>

\* the sketch goes on after a command
Return ==
    /\ got /= NoRet
    /\ got' = NoRet
    /\ UNCHANGED <<drv, previousData, intBits, uartRx, chip, hist>>

\* the chip raises or lowers BUSY
ChipBusy ==
    /\ drv.busyPin >= 0
    /\ drv' = [drv EXCEPT !.busyLevel = IF @ = "LOW" THEN "HIGH" ELSE "LOW"]
    /\ got' = NoRet
    /\ UNCHANGED <<previousData, intBits, uartRx, chip, hist>>

NextTx ==
    \/ TxChipStart
    \/ TxChipSend
    \/ TxChipAck
    \/ ChipBusy
    \/ Query
    \/ setTx
    \/ setRx
    \/ irTx
    \/ sendRaw
    \/ loadFormat
    \/ setShutDown
    \/ setRxMode
    \/ Return

SpecTx == InitTx /\ [][NextTx]_vars

(***************************************************************************)
(* Properties                                                              *)
(***************************************************************************)
\* the last byte the driver processed is the n-th 0x7a after a packet that
\* started from idle and was not interrupted
ClosedBy(n) == hist.fresh /\ hist.terms = n /\ ~hist.cut /\ ~hist.inPkt /\ hist.n >= 1

\* status and bit length as the last three stored bytes give them
StoredStatus == bufBackRead(Mach, drv.lastWritingPos, 2)
StoredBitLen == bufBackRead(Mach, drv.lastWritingPos, 1)
                + 256 * bufBackRead(Mach, drv.lastWritingPos, 0)

\* the data packet the protocol makes available at this point of the stream
Accepted(h) ==
    IF h.inPkt \/ h.cut THEN NoPkt
    ELSE IF h.closedOk THEN h.acc
    ELSE IF h.terms >= 2 /\ h.adj THEN h.d
    ELSE NoPkt

\* C1: the single 0x7a that closes a packet of n <= capacity bytes started from
\* idle sets data-ready if and only if bit 7 of the third-from-last stored byte
\* is clear and n = ceil(L/8) + 3, L the bit length in the last two stored bytes.
C1_LengthValidation ==
    (ClosedBy(1) /\ hist.n <= BC7215_BUFFER_SIZE)
        => (drv.dataPktReady <=> (~Bit7(StoredStatus) /\ hist.n = CeilDiv8(StoredBitLen) + 3))

\* C2: for a packet of n <= capacity bytes started from idle and followed by two
\* consecutive 0x7a, format-ready is set by the second 0x7a if and only if n = 33.
C2_FormatDetection ==
    (ClosedBy(2) /\ hist.n <= BC7215_BUFFER_SIZE)
        => (drv.formatPktReady <=> hist.n = 33)

C2_Witness ==
    /\ ClosedBy(2)
    /\ hist.n = 33
    /\ drv.formatPktReady
    /\ drv.startPos + FormatPktSize > BC7215_BUFFER_SIZE

\* C3: once a packet has more bytes than the buffer holds, the overflow flag is
\* set and neither data-ready nor format-ready is set for that packet, whatever
\* terminators follow and whatever value the wrapped byte counter has.
C3_Overflow ==
    hist.over => (drv.overLap /\ ~drv.dataPktReady /\ ~drv.formatPktReady)

C3_Witness ==
    /\ hist.over
    /\ hist.fresh
    /\ hist.terms = 2
    /\ hist.n = 256 + FormatPktSize
    /\ drv.byteCount = FormatPktSize
    /\ drv.overLap

\* C4: when a valid data packet D of d bytes closed by one 0x7a is immediately
\* followed by a 33-byte format packet F closed by 0x7a 0x7a, format-ready is
\* set and getFormat returns F, data-ready is set again if and only if
\* 33 + d <= capacity, and getData then returns bit length, status and payload of D.
C4_Composite ==
    (ClosedBy(2) /\ hist.adj /\ hist.n = FormatPktSize /\ uartRx = <<>>)
        => /\ drv.formatPktReady
           /\ getFormatCopy(Mach).data = hist.pkt
           /\ drv.dataPktReady <=> (FormatPktSize + hist.d.count <= BC7215_BUFFER_SIZE)
           /\ drv.dataPktReady =>
                 /\ getDataCopy(Mach).bitLen = hist.d.bitLen
                 /\ getDataCopy(Mach).val = hist.d.status
                 /\ getDataCopy(Mach).data = hist.d.payload

\* C5: getData returns 0xFF and changes nothing when no data packet is ready;
\* otherwise it returns the status byte of the accepted packet, its bit length
\* and exactly ceil(bitLen/8) payload bytes in arrival order, and clears data-ready.
C5_getData ==
    /\ (uartRx = <<>> /\ ~drv.dataPktReady)
          => /\ getDataCopy(Mach).val = 255
             /\ ~getDataCopy(Mach).bitLenSet
             /\ getDataCopy(Mach).data = <<>>
             /\ getDataCopy(Mach).t = Mach
    /\ (got.op = "getData")
          => /\ Accepted(hist).ok
             /\ got.val = Accepted(hist).status
             /\ got.bitLen = Accepted(hist).bitLen
             /\ got.data = Accepted(hist).payload
             /\ Len(got.data) = CeilDiv8(got.bitLen)
             /\ ~drv.dataPktReady

\* C6: getFormat returns 0xFF and changes nothing when no format packet is
\* ready; otherwise it returns the first received byte and the 33 bytes of the
\* packet in arrival order and clears format-ready; whenever format-ready is
\* set, the 33 buffer bytes from startPos are the bytes of the format packet.
C6_getFormat ==
    /\ (uartRx = <<>> /\ ~drv.formatPktReady)
          => /\ getFormatCopy(Mach).val = 255
             /\ getFormatCopy(Mach).data = <<>>
             /\ getFormatCopy(Mach).t = Mach
    /\ (got.op = "getFormat")
          => /\ Len(hist.pkt) = FormatPktSize
             /\ got.data = hist.pkt
             /\ got.val = got.data[1]
             /\ ~drv.formatPktReady
    /\ drv.formatPktReady
          => [i \in 1..FormatPktSize |-> bufRead(Mach, drv.startPos, i - 1)] = hist.pkt

\* C7: getRaw(addr, size) writes min(size, ceil(bitLen/8)) bytes, the leading
\* payload bytes of the accepted packet, returns that count and clears
\* data-ready; it writes nothing and returns 0 when no data packet is ready;
\* it never writes more than size bytes.
C7_getRaw ==
    /\ (uartRx = <<>> /\ ~drv.dataPktReady)
          => \A size \in RawSizes :
                /\ getRawCopy(Mach, size).val = 0
                /\ getRawCopy(Mach, size).data = <<>>
                /\ getRawCopy(Mach, size).t = Mach
    /\ (got.op = "getRaw")
          => /\ Accepted(hist).ok
             /\ got.val = Min(got.size, CeilDiv8(Accepted(hist).bitLen))
             /\ Len(got.data) = got.val
             /\ Len(got.data) <= got.size
             /\ \A i \in 1..Len(got.data) :
                   i <= Len(Accepted(hist).payload) /\ got.data[i] = Accepted(hist).payload[i]
             /\ ~drv.dataPktReady

\* C8: whenever data-ready is set, bitLen <= 4095 and ceil(bitLen/8) + 3 is the
\* recorded byte count, so that dpketSize() is 2 plus the number of bytes getData
\* copies; when data-ready is clear, getLen() and dpketSize() return 0.
C8_SizeQuery ==
    /\ drv.dataPktReady
          => /\ drv.bitLen <= 4095
             /\ CeilDiv8(drv.bitLen) + 3 = drv.datCount
             /\ dpketSizeValue(Mach) = 2 + Len(getDataCopy(Mach).data)
    /\ ~drv.dataPktReady
          => /\ getLenValue(Mach) = 0
             /\ dpketSizeValue(Mach) = 0

\* the first packet after reset had the bytes p and was closed by one 0x7a
FirstPacketClosed(p) ==
    hist.idx = 1 /\ hist.pkt = p /\ hist.terms = 1 /\ ~hist.cut /\ ~hist.inPkt

ScenarioDelivers(p, L, payload) ==
    /\ (FirstPacketClosed(p) /\ hist.fresh) => (drv.dataPktReady /\ drv.bitLen = L)
    /\ (FirstPacketClosed(p) /\ got.op = "getData")
          => (got.bitLen = L /\ got.data = payload)

C10_RoundTrip ==
    (hist.mark.op = "stuff")
        => /\ hist.mark.enc = (IF hist.mark.b = 122 THEN <<123, 250>>
                               ELSE IF hist.mark.b = 123 THEN <<123, 251>>
                               ELSE <<hist.mark.b>>)
           /\ (chip.wire = <<>> /\ uartRx = <<>>)
                 => /\ drv.byteCount = hist.mark.count + 1
                    /\ drv.lastWritingPos = hist.mark.pos + 1
                    /\ drv.circularBuffer =
                          [hist.mark.buf EXCEPT ![hist.mark.pos + 1] = hist.mark.b]
           /\ (chip.wire /= <<>> /\ uartRx = <<>>)
                 => /\ drv.byteCount = hist.mark.count
                    /\ drv.lastWritingPos = hist.mark.pos
                    /\ drv.circularBuffer = hist.mark.buf

C10_Witness ==
    /\ hist.mark.op = "stuff"
    /\ hist.mark.b = 123
    /\ chip.wire = <<>>
    /\ uartRx = <<>>
    /\ drv.circularBuffer[drv.lastWritingPos] = 123
    /\ drv.byteCount = 2

(***************************************************************************)
(* Transmit side (checked under SpecTx)                                    *)
(***************************************************************************)
\* what the chip gets from stuffed wire bytes w: 0x7b is dropped and bit 7 of
\* the byte after it is cleared
Unstuffed(w) ==
    LET marks == [k \in 1..Len(w) |->
                    IF w[k] = 123 THEN -1
                    ELSE IF k > 1 /\ w[k - 1] = 123 THEN w[k] % 128
                    ELSE w[k]]
    IN SelectSeq(marks, LAMBDA x : x /= -1)

\* the wire bytes w are the stuffed encoding of the bytes s: they decode to s,
\* hold no 0x7a, and hold one byte more for each 0x7a or 0x7b of s and no others
IsStuffingOf(w, s) ==
    /\ Unstuffed(w) = s
    /\ \A k \in 1..Len(w) : w[k] /= 122
    /\ Len(w) = Len(s) + Cardinality({k \in 1..Len(s) : s[k] \in {122, 123}})

\* the bytes of the wire after the two-byte command prefix
AfterPrefix(w) == SubSeq(w, 3, Len(w))
HasPrefix(w, a, b) == Len(w) >= 2 /\ w[1] = a /\ w[2] = b

\* C11: irTx writes, and clears command-complete, exactly when the driver is in
\* transmit mode and 8 <= bitLen <= 4095; it then writes 0xF5 0x02 and the
\* stuffed encoding of the first 2 + ceil(bitLen/8) bytes of the packet (bit
\* length low byte, high byte, payload) and changes nothing else; otherwise it
\* writes nothing and changes nothing
C11_irTx ==
    (got.op = "irTx") =>
        LET L == got.inp.bitLen
        IN IF ModIsLow(got.pre) /\ L >= 8 /\ L <= 4095
           THEN /\ HasPrefix(got.out, 245, 2)
                /\ IsStuffingOf(AfterPrefix(got.out),
                                SubSeq(<<L % 256, L \div 256>> \o got.inp.data, 1, 2 + CeilDiv8(L)))
                /\ Mach = [got.pre EXCEPT !.cmdComplete = FALSE]
           ELSE /\ got.out = <<>>
                /\ Mach = got.pre

\* an accepted irTx of 4095 bits with bytes to escape, command-complete set before
C11_Witness ==
    /\ got.op = "irTx"
    /\ got.inp.bitLen = 4095
    /\ got.pre.cmdComplete
    /\ ~drv.cmdComplete
    /\ \E k \in 1..Len(got.out) : got.out[k] = 123
    /\ Len(got.out) > 2 + 2 + 512

\* C12: in transmit mode with size < 512, sendRaw clears command-complete and
\* writes 0xF5 0x02, then the stuffed low and high byte of the bit length
\* 8 * size, then the stuffed size source bytes in order, and changes nothing
\* else; with size >= 512 or in receive mode it writes nothing and changes nothing
C12_sendRaw ==
    (got.op = "sendRaw") =>
        LET size == got.inp.size
            bits == 8 * size
        IN IF ModIsLow(got.pre) /\ size < 512
           THEN /\ HasPrefix(got.out, 245, 2)
                /\ IsStuffingOf(AfterPrefix(got.out),
                                <<bits % 256, bits \div 256>> \o SubSeq(got.inp.source, 1, size))
                /\ Mach = [got.pre EXCEPT !.cmdComplete = FALSE]
           ELSE /\ got.out = <<>>
                /\ Mach = got.pre

\* an accepted sendRaw of 511 bytes with bytes to escape, command-complete set before
C12_Witness ==
    /\ got.op = "sendRaw"
    /\ got.inp.size = 511
    /\ got.pre.cmdComplete
    /\ ~drv.cmdComplete
    /\ \E k \in 1..Len(got.out) : got.out[k] = 123
    /\ got.out[3] = 248 /\ got.out[4] = 15

\* C13: in transmit mode loadFormat writes 0xF6 0x01 and the stuffed encoding
\* of the 33 bytes of the format packet in order; in receive mode it writes
\* nothing; in both modes the status flags and the receive buffer stay as they were
C13_loadFormat ==
    (got.op = "loadFormat") =>
        /\ Mach = got.pre
        /\ IF ModIsLow(got.pre)
           THEN /\ HasPrefix(got.out, 246, 1)
                /\ Len(got.inp) = 33
                /\ IsStuffingOf(AfterPrefix(got.out), got.inp)
           ELSE got.out = <<>>

\* a format with bytes to escape loaded in transmit mode, after a packet was
\* received and command-complete was set
C13_Witness ==
    /\ got.op = "loadFormat"
    /\ ModIsLow(got.pre)
    /\ Len(got.out) = 2 + 33 + 2
    /\ drv.cmdComplete
    /\ drv.datCount > 0

\* MOD as the chip sees it: driven by the host, or tied to GND or VCC
ModDrivenLow(t) == (t.modPin = MOD_LOW) \/ (t.modPin >= 0 /\ t.modLevel = "LOW")
ModDrivenHigh(t) == (t.modPin = MOD_HIGH) \/ (t.modPin >= 0 /\ t.modLevel = "HIGH")

C15_Completion ==
    (hist.mark.op = "cmd") =>
        /\ ModIsLow(Mach)
        /\ cmdCompletedValue(Mach) <=> hist.mark.acked
        /\ cmdCompletedValue(Drained) <=> Observed.mark.acked

\* a command was issued, two bytes arrived from the chip, a 0x7a among them, and were drained
C15_Witness ==
    /\ hist.mark.op = "cmd"
    /\ hist.mark.acked
    /\ drv.cmdComplete
    /\ chip.acks = 2
    /\ uartRx = <<>>

\* C16: whenever the driver is in receive mode, cmdCompleted() returns true,
\* whatever constructor, setTx, setRx, irTx, sendRaw, setShutDown calls and
\* received bytes came before
C16_RxComplete ==
    ModIsHigh(Mach) => cmdCompletedValue(Drained)

\* C17: whenever the driver is in transmit mode, dataReady() and formatReady()
\* return false, whatever bytes arrive from the chip and whatever was received
\* before the switch
C17_TxNotReady ==
    ModIsLow(Mach) =>
        /\ ~dataReadyValue(Drained)
        /\ ~formatReadyValue(Drained)

\* transmit mode entered after a data packet was received and accepted, with
\* bytes from the chip waiting
C17_Witness ==
    /\ ModIsLow(Mach)
    /\ drv.modPin >= 0
    /\ hist.closedOk
    /\ drv.datCount > 0
    /\ uartRx /= <<>>

\* C18: isBusy() drains the pending input and then returns the negation of
\* command-complete in transmit mode and the packet-in-progress flag in
\* receive mode; the level of BUSY makes no difference in any wiring
C18_isBusy ==
    LET t == Drained
    IN /\ ModDrivenLow(t) => (isBusyValue(t) <=> ~cmdCompletedValue(t))
       /\ ModDrivenHigh(t) => (isBusyValue(t) <=> t.pktStarted) /\ (t.pktStarted <=> Observed.inPkt)
       /\ \A level \in {"LOW", "HIGH"} :
              isBusyValue([t EXCEPT !.busyLevel = level]) <=> isBusyValue(t)

\* BUSY is wired and high while no command is pending in transmit mode
C18_Witness ==
    /\ drv.busyPin >= 0
    /\ drv.busyLevel = "HIGH"
    /\ ModIsLow(Mach)
    /\ drv.cmdComplete
    /\ uartRx = <<>>
    /\ ~isBusyValue(Drained)

(***************************************************************************)
(* Mode switch (checked under Spec, where packets overflow the buffer)     *)
(***************************************************************************)
\* what setTx leaves behind, apart from the overflow flag
SetTxCleared ==
    /\ ~drv'.dataPktReady
    /\ ~drv'.formatPktReady
    /\ ~drv'.pktStarted
    /\ drv'.cmdComplete
    /\ (drv.modPin >= 0) => (drv'.modLevel = "LOW")

TxBytes == {0, 1, 121, 122, 123, 124, 250, 251, 255}

\* C20: while the driver is in transmit mode, processing a received byte
\* writes nothing to the buffer and leaves the positions, the counters, the
\* bit length and the data-ready, format-ready, packet-in-progress and
\* overflow flags as they were; 0x7a sets command-complete and any other byte
\* changes nothing at all
C20_TxBytes ==
    ModIsLow(Mach) =>
        /\ \A data \in TxBytes :
              processData(Mach, data) =
                  IF data = 122 THEN [Mach EXCEPT !.cmdComplete = TRUE] ELSE Mach
        /\ Drained = [Mach EXCEPT !.cmdComplete = @ \/ (\E k \in 1..Len(uartRx) : uartRx[k] = 122)]

\* noise and then 0x7a wait in transmit mode while a command is pending and a
\* received packet is still in the buffer
C20_Witness ==
    /\ ModIsLow(Mach)
    /\ uartRx = <<1, 122>>
    /\ ~drv.cmdComplete
    /\ drv.datCount > 0

\* C21: setShutDown called while the driver is in receive mode writes nothing
\* to the UART and leaves every status flag, command-complete included, as it was
C21_ShutDownRx ==
    (got.op = "setShutDown" /\ ModIsHigh(got.pre)) =>
        /\ got.out = <<>>
        /\ Mach = got.pre

(***************************************************************************)
(* Blocking send: a command call byte by byte (SpecSend)                   *)
(***************************************************************************)
\* a faulty wait that never looks at BUSY
CanWriteAlways(t) == TRUE

\* sendOneByte may pass its wait loop
SendReady(t) == CanWrite(t)

\* the calls the sketch makes: each gives the bytes handed to sendOneByte
SendCalls ==
    { [op |-> "irTx", r |-> irTxRun(Mach, TxPacket(8, 2))],
      [op |-> "sendRaw", r |-> sendRawRun(Mach, RawSource(3), 3)],
      [op |-> "loadFormat", r |-> loadFormatRun(Mach, Ramp(96, 33))],
      [op |-> "setShutDown", r |-> setShutDownRun(Mach)],
      [op |-> "setRxMode", r |-> setRxModeRun(Mach, 1)] }

\* a command is called: irTx and sendRaw clear command-complete before the
\* first byte, setShutDown after the last one; todo are the bytes still to be
\* handed to the UART, out the bytes written, waited whether the wait loop spun
SendCall ==
    /\ got = NoRet
    /\ \E c \in SendCalls :
          /\ got' = [op |-> c.op, todo |-> c.r.out, out |-> <<>>, waited |-> FALSE,
                     post |-> c.r.t]
          /\ Install(IF c.op = "setShutDown" THEN Mach ELSE c.r.t)
    /\ UNCHANGED <<uartRx, chip, hist>>

\* one turn of the wait loop of sendOneByte: BUSY read high
SendWait ==
    /\ got.op /= "none"
    /\ got.todo /= <<>>
    /\ ~SendReady(Mach)
    /\ got' = [got EXCEPT !.waited = TRUE]
    /\ UNCHANGED <<drv, previousData, intBits, uartRx, chip, hist>>

\* sendOneByte writes: BUSY read low, or BUSY is not connected
SendByte ==
    /\ got.op /= "none"
    /\ got.todo /= <<>>
    /\ SendReady(Mach)
    /\ got' = [got EXCEPT !.out = Append(@, Head(got.todo)), !.todo = Tail(@)]
    /\ UNCHANGED <<drv, previousData, intBits, uartRx, chip, hist>>

\* the call returns
SendReturn ==
    /\ got.op /= "none"
    /\ got.todo = <<>>
    /\ Install(got.post)
    /\ got' = NoRet
    /\ UNCHANGED <<uartRx, chip, hist>>

\* the chip raises BUSY, the chip lowers BUSY (whether or not the host reads it)
BusyRise ==
    /\ drv.busyLevel = "LOW"
    /\ drv' = [drv EXCEPT !.busyLevel = "HIGH"]
    /\ UNCHANGED <<previousData, intBits, uartRx, chip, hist, got>>

BusyFall ==
    /\ drv.busyLevel = "HIGH"
    /\ drv' = [drv EXCEPT !.busyLevel = "LOW"]
    /\ UNCHANGED <<previousData, intBits, uartRx, chip, hist, got>>

\* the sketch switches the mode between two calls
SendSetTx == (got = NoRet) /\ setTx
SendSetRx == (got = NoRet) /\ setRx

NextSend ==
    \/ SendCall
    \/ SendWait
    \/ SendByte
    \/ SendReturn
    \/ BusyRise
    \/ BusyFall
    \/ SendSetTx
    \/ SendSetRx

SpecSend == InitTx /\ [][NextSend]_vars

\* the processor runs the call; the chip lowers BUSY again, and a wait loop
\* that BUSY is low for again and again reads it low
SpecSendFair ==
    /\ SpecSend
    /\ WF_vars(SendReturn)
    /\ WF_vars(BusyFall)
    /\ SF_vars(SendByte)

InCall == got.op /= "none"

\* C22: with a real BUSY pin no byte is written while BUSY reads high, and a
\* call with bytes left does not return while BUSY stays high; with BUSY not
\* connected a send never waits; every call returns when BUSY reads low each
\* time it is waited on
C22_BlockingSend ==
    /\ [][(InCall /\ got'.op = got.op /\ Len(got'.out) > Len(got.out))
             => (drv.busyPin = BUSY_NC \/ drv.busyLevel = "LOW")]_vars
    /\ [][(InCall /\ got.todo /= <<>> /\ drv.busyPin >= 0
             /\ drv.busyLevel = "HIGH" /\ drv'.busyLevel = "HIGH")
             => (got'.op = got.op /\ got'.out = got.out)]_vars
    /\ []((InCall /\ drv.busyPin = BUSY_NC) => (~got.waited /\ (got.todo /= <<>> => ENABLED SendByte)))
    /\ (InCall ~> ~InCall)

\* a call that had to wait for BUSY has written all its bytes
C22_Witness ==
    /\ InCall
    /\ got.waited
    /\ got.todo = <<>>
    /\ Len(got.out) = 37
    /\ drv.busyPin >= 0

(***************************************************************************)
(* Two driver instances on two chips (SpecTwo)                             *)
(*                                                                         *)
(* drv is the first instance, chip.inst the second one (on its own chip);  *)
(* previousData is the static variable of processData, one for the whole   *)
(* program.  hist.alone is what the first instance would hold had the      *)
(* second one processed nothing; chip.fed counts the bytes of the second.  *)
(***************************************************************************)
MaxOther == 2

\* what the first chip sends: an escaped payload byte 0x7a of an 8-bit packet;
\* a data packet followed by a second terminator
TwoStreams ==
    { <<123, 250, 0, 8, 0, 122>>,
      <<0, 0, 0, 122, 122>> }

TwoBytes == {0, 122, 123}

MachOf(inst) == inst @@ [previousData |-> previousData, intBits |-> intBits]

InitTwo ==
    /\ drv = DrvInit(MOD_HIGH, BUSY_NC)
    /\ previousData = 0
    /\ intBits \in {16, 32}
    /\ uartRx \in TwoStreams
    /\ chip = ChipInit @@ [inst |-> DrvInit(MOD_HIGH, BUSY_NC), fed |-> 0]
    /\ hist = [alone |-> DrvInit(MOD_HIGH, BUSY_NC) @@ [previousData |-> 0, intBits |-> intBits]]
    /\ got = NoRet

\* the first instance reads one byte of its UART and processes it
TwoFirst ==
    /\ uartRx /= <<>>
    /\ Install(processData(Mach, Head(uartRx)))
    /\ hist' = [alone |-> processData(hist.alone, Head(uartRx))]
    /\ uartRx' = Tail(uartRx)
    /\ UNCHANGED <<chip, got>>

\* the second instance reads one byte of its own UART and processes it
TwoSecond ==
    /\ chip.fed < MaxOther
    /\ \E data \in TwoBytes :
          LET r == processData(MachOf(chip.inst), data)
          IN /\ chip' = [chip EXCEPT !.inst = [f \in DOMAIN chip.inst |-> r[f]],
                                     !.fed = @ + 1]
             /\ previousData' = r.previousData
    /\ UNCHANGED <<drv, intBits, uartRx, hist, got>>

NextTwo ==
    \/ TwoFirst
    \/ TwoSecond

SpecTwo == InitTwo /\ [][NextTwo]_vars

\* C23: whatever bytes the second instance processes in between, the flags
\* and the retrievable packets of the first instance are those it would have
\* had the second instance processed no byte
C23_Independence ==
    LET a == Mach
        r == hist.alone
    IN /\ dataReadyValue(a) = dataReadyValue(r)
       /\ formatReadyValue(a) = formatReadyValue(r)
       /\ isBusyValue(a) = isBusyValue(r)
       /\ getLenValue(a) = getLenValue(r)
       /\ getDataCopy(a).data = getDataCopy(r).data
       /\ getDataCopy(a).val = getDataCopy(r).val
       /\ getFormatCopy(a).data = getFormatCopy(r).data

(***************************************************************************)
(* Life of the ready flags (checked under Spec)                            *)
(***************************************************************************)
\* the step processes bytes received from the chip
BytesProcessed == (uartRx /= <<>>) /\ (uartRx' = <<>>)

DataReadyFalls == drv.dataPktReady /\ ~drv'.dataPktReady
FormatReadyFalls == drv.formatPktReady /\ ~drv'.formatPktReady

CompareNoBits(dat1, dat2, bits) == TRUE

\* for (i = 0; i < bits; ++i): bit 0 compared, both bytes shifted right
RECURSIVE CompareLowBits(_, _, _)
CompareLowBits(dat1, dat2, bits) ==
    IF bits = 0 THEN TRUE
    ELSE IF (dat1 % 2) /= (dat2 % 2) THEN FALSE
    ELSE CompareLowBits(dat1 \div 2, dat2 \div 2, bits - 1)

\* for (i = 0; i < bits; ++i): bit 7 compared, both bytes shifted left (uint8_t)
RECURSIVE CompareHighBits(_, _, _)
CompareHighBits(dat1, dat2, bits) ==
    IF bits = 0 THEN TRUE
    ELSE IF (dat1 \div 128) /= (dat2 \div 128) THEN FALSE
    ELSE CompareHighBits((dat1 * 2) % 256, (dat2 * 2) % 256, bits - 1)

\* (sig & 0x30) == 0x30
SigBothTP(sig) == (sig \div 16) % 4 = 3

compareDpkt(sig, pkt1, pkt2) ==
    IF pkt1.bitLen /= pkt2.bitLen THEN FALSE
    ELSE LET len == pkt1.bitLen \div 8
             bits == pkt1.bitLen % 8
         IN IF \E i \in 1..len : pkt1.data[i] /= pkt2.data[i] THEN FALSE
            ELSE IF bits /= 0
                 THEN LET dat1 == pkt1.data[len + 1]
                          dat2 == pkt2.data[len + 1]
                      IN IF dat1 = dat2 THEN TRUE
                         ELSE IF SigBothTP(sig)
                              THEN CompareLowBits(dat1, dat2, bits)
                              ELSE CompareHighBits(dat1, dat2, bits)
                 ELSE TRUE

\* bit lengths with and without a partial last byte; bytes with single bits,
\* low and high runs of bits; signatures with TP0:TP1 = 00, 01, 11
CmpLens == {0, 3, 8, 13}
CmpBytes == {0, 1, 4, 7, 16, 128, 224, 255}
CmpSigs == {0, 16, 48, 63}

\* two packets that differ in at most one byte, and maybe in the bit length
CmpInputs ==
    { [op |-> "compareDpkt?", sig |-> sig,
       pkt1 |-> [bitLen |-> L, data |-> <<x, y>>],
       pkt2 |-> [bitLen |-> L + more, data |-> IF pos = 1 THEN <<z, y>> ELSE <<x, z>>]] :
      sig \in CmpSigs, L \in CmpLens, more \in {0, 1}, x \in {0, 255}, y \in CmpBytes,
      z \in CmpBytes, pos \in {1, 2} }

BC7215_CRC8_POLY == 7

\* bit k of a byte, and the bitwise exclusive or of two bytes
BitOf(x, k) == (x \div (2 ^ k)) % 2
Xor8(a, b) ==
    LET d(k) == ((BitOf(a, k) + BitOf(b, k)) % 2) * (2 ^ k)
    IN d(0) + d(1) + d(2) + d(3) + d(4) + d(5) + d(6) + d(7)

\* if (crc & 0x80) crc = (crc << 1) ^ POLY; else crc <<= 1;  (uint8_t crc)
CrcShift(crc) ==
    IF crc >= 128
    THEN Xor8((crc * 2) % 256, BC7215_CRC8_POLY)
    ELSE (crc * 2) % 256

\* for (j = 0; j < 8; ++j) the shift
CrcShift8(crc) ==
    CrcShift(CrcShift(CrcShift(CrcShift(CrcShift(CrcShift(CrcShift(CrcShift(crc))))))))

\* a faulty step that adds the byte instead of xoring it
CrcByteAdd(crc, byte) == CrcShift8((crc + byte) % 256)

\* crc ^= byte, then the eight shifts
CrcByte(crc, byte) == CrcShift8(Xor8(crc, byte))

\* the loop over the bytes; crc is a uint8_t
RECURSIVE CrcFrom(_, _)
CrcFrom(crc, data) ==
    IF data = <<>> \/ crc \notin Byte THEN crc
    ELSE CrcFrom(CrcByte(crc, Head(data)), Tail(data))

crc8(data) == CrcFrom(0, data)

\* every sequence of up to MaxCrcLen bytes of CrcBytes, and the 21 bytes of the
\* decoder example
MaxCrcLen == 3
CrcBytes == {0, 1, 7, 128, 255}
SeqsUpTo(S, n) == UNION { [1..k -> S] : k \in 0..n }
CrcInputs ==
    { [op |-> "crc8?", data |-> d] : d \in SeqsUpTo(CrcBytes, MaxCrcLen) \cup {Ramp(113, 21)} }

\* calSize: 0 for a bit length of 0x1000 or more
calSize(t, bitLen) == IF bitLen < 4096 THEN Plus7Div8(t, bitLen) + 2 ELSE 0

\* a faulty backward copy that starts at the front
RECURSIVE CopyForward(_, _, _, _)
CopyFromFront(mem, target, source, totalLen) ==
    CopyForward(mem, target, source, totalLen)

\* for (i = 0; i < totalLen; i++) target[i] = source[i], on the bytes not yet copied
CopyForward(mem, target, source, totalLen) ==
    IF totalLen = 0 THEN mem
    ELSE CopyForward([mem EXCEPT ![target] = mem[source]], target + 1, source + 1, totalLen - 1)

\* for (i = totalLen; i > 0; i--) target[i - 1] = source[i - 1]
RECURSIVE CopyBackward(_, _, _, _)
CopyBackward(mem, target, source, totalLen) ==
    IF totalLen = 0 THEN mem
    ELSE CopyBackward([mem EXCEPT ![target + totalLen - 1] = mem[source + totalLen - 1]],
                      target, source, totalLen - 1)

\* the memory after copyDpkt(target, source); the size is read before the copy
copyDpkt(t, mem, target, source) ==
    LET totalLen == calSize(t, mem[source] + 256 * mem[source + 1])
    IN IF source > target THEN CopyForward(mem, target, source, totalLen)
       ELSE IF source < target THEN CopyBackward(mem, target, source, totalLen)
       ELSE mem

\* a memory of MemSize bytes with a packet of bit length L at CopySource
MemSize == 20
CopySource == 6
CopyLens == {0, 8, 9, 24, 32, 4096, 65535}
CopyShifts == {-5, -2, -1, 0, 1, 2, 5}
PacketMemory(L) ==
    [a \in 0..(MemSize - 1) |->
        IF a = CopySource THEN L % 256
        ELSE IF a = CopySource + 1 THEN L \div 256
        ELSE 100 + a]
CopyInputs ==
    { [op |-> "copyDpkt?", mem |-> PacketMemory(L), target |-> CopySource + d, source |-> CopySource] :
      L \in CopyLens, d \in CopyShifts }

\* the utility functions applied to inputs drawn at the start
UtilInputs == CmpInputs \cup CrcInputs \cup CopyInputs

InitUtil ==
    /\ drv = DrvInit(MOD_HIGH, BUSY_NC)
    /\ previousData = 0
    /\ intBits \in {16, 32}
    /\ uartRx = <<>>
    /\ chip = ChipInit
    /\ hist = HistInit
    /\ got \in UtilInputs

compareDpktCall ==
    /\ got.op = "compareDpkt?"
    /\ got' = [got EXCEPT !.op = "compareDpkt"] @@ [val |-> compareDpkt(got.sig, got.pkt1, got.pkt2)]
    /\ UNCHANGED <<drv, previousData, intBits, uartRx, chip, hist>>

\* the sender of the decoder example: the CRC of the data goes behind the data
crc8Send ==
    /\ got.op = "crc8?"
    /\ got' = [op |-> "crc8", data |-> got.data, val |-> crc8(got.data),
               sent |-> got.data \o <<crc8(got.data)>>]
    /\ UNCHANGED <<drv, previousData, intBits, uartRx, chip, hist>>

\* its receiver: the CRC over the data and the CRC byte
crc8Check ==
    /\ got.op = "crc8"
    /\ got' = [got EXCEPT !.op = "crc8 check"] @@ [check |-> crc8(got.sent)]
    /\ UNCHANGED <<drv, previousData, intBits, uartRx, chip, hist>>

copyDpktCall ==
    /\ got.op = "copyDpkt?"
    /\ got' = [got EXCEPT !.op = "copyDpkt"]
              @@ [after |-> copyDpkt(Mach, got.mem, got.target, got.source)]
    /\ UNCHANGED <<drv, previousData, intBits, uartRx, chip, hist>>

NextUtil ==
    \/ compareDpktCall
    \/ crc8Send
    \/ crc8Check
    \/ copyDpktCall

SpecUtil == InitUtil /\ [][NextUtil]_vars

\* the n declared bits of the final byte b under the signature sig
DeclaredBits(sig, b, n) ==
    IF (sig \div 16) % 4 = 3 THEN b % (2 ^ n) ELSE b \div (2 ^ (8 - n))

PacketsEqual(sig, pkt1, pkt2) ==
    /\ pkt1.bitLen = pkt2.bitLen
    /\ \A i \in 1..(pkt1.bitLen \div 8) : pkt1.data[i] = pkt2.data[i]
    /\ LET n == pkt1.bitLen % 8
           last == (pkt1.bitLen \div 8) + 1
       IN n > 0 => DeclaredBits(sig, pkt1.data[last], n) = DeclaredBits(sig, pkt2.data[last], n)

\* C25: compareDpkt returns true exactly when the bit lengths are equal, all
\* whole bytes are equal and, for a bit length that is not a multiple of 8,
\* the declared bits of the final byte are equal: its low-order bits when
\* (sig & 0x30) = 0x30, its high-order bits otherwise; the other bits of the
\* final byte do not count.
C25_compareDpkt ==
    got.op = "compareDpkt" => (got.val <=> PacketsEqual(got.sig, got.pkt1, got.pkt2))

C25_Witness ==
    /\ got.op = "compareDpkt"
    /\ got.val
    /\ got.pkt1.bitLen % 8 = 5
    /\ got.pkt1.data[2] /= got.pkt2.data[2]
    /\ got.sig = 48

\* C26: the CRC-8 over the data followed by the CRC-8 of the data is 0, the
\* CRC-8 of no bytes is 0, and the CRC-8 of the single byte 1 is the
\* polynomial 0x07 (initial value 0, most significant bit first).
C26_crc8 ==
    /\ got.op \in {"crc8", "crc8 check"} =>
           /\ got.val \in Byte
           /\ got.data = <<>> => got.val = 0
           /\ got.data = <<1>> => got.val = BC7215_CRC8_POLY
    /\ got.op = "crc8 check" => got.check = 0

C26_Witness ==
    /\ got.op = "crc8 check"
    /\ Len(got.data) = 21
    /\ got.val /= 0
    /\ got.check = 0

\* C27: after copyDpkt the ceil(bitLen / 8) + 2 bytes at the target are the
\* bytes the source held before the call, wherever the target lies with
\* respect to the source; for a bit length of 4096 or more the memory is
\* left as it was.
C27_copyDpkt ==
    got.op = "copyDpkt" =>
        LET bitLen == got.mem[got.source] + 256 * got.mem[got.source + 1]
        IN IF bitLen < 4096
           THEN \A i \in 0..(CeilDiv8(bitLen) + 1) :
                    got.after[got.target + i] = got.mem[got.source + i]
           ELSE got.after = got.mem

C27_Witness ==
    /\ got.op = "copyDpkt"
    /\ got.target = got.source + 1
    /\ got.mem[got.source] = 32
    /\ got.after /= got.mem

(* The start of a packet *)
\* one byte that is not 0x7a is processed in receive mode with no packet in progress
StartsPacket ==
    /\ ModIsHigh(Mach)
    /\ ~drv.pktStarted
    /\ Len(uartRx) = 1
    /\ uartRx[1] /= 122
    /\ uartRx' = <<>>

\* C28: in receive mode the first byte that is not 0x7a, processed while no
\* packet is in progress, sets packet-in-progress, clears data-ready,
\* format-ready and the overflow flag, sets the bit length to 0, restarts the
\* byte counter (0 after a leading 0x7b, 1 after a stored byte) and records
\* as start position the slot after the last written one, modulo the capacity.
C28_StartPacket ==
    [][StartsPacket =>
          /\ drv'.pktStarted
          /\ ~drv'.dataPktReady
          /\ ~drv'.formatPktReady
          /\ ~drv'.overLap
          /\ drv'.bitLen = 0
          /\ drv'.byteCount = (IF uartRx[1] = 123 THEN 0 ELSE 1)
          /\ drv'.startPos = (drv.lastWritingPos + 1) % BC7215_BUFFER_SIZE]_vars

\* a leading 0x7b has started the packet that follows the packet of 289 bytes
C28_Witness ==
    /\ drv.pktStarted
    /\ drv.byteCount = 0
    /\ previousData = 123
    /\ ~drv.overLap
    /\ drv.startPos = (drv.lastWritingPos + 1) % BC7215_BUFFER_SIZE
    /\ hist.last3 = <<0, 240, 0>>

(* Packet in progress *)
\* C29: while a packet is in progress neither data-ready nor format-ready is
\* set; a 0x7a processed in receive mode ends the packet in progress; and in
\* receive mode isBusy() is true exactly while a packet is in progress on the
\* wire, from its first byte that is not 0x7a to its terminator.
C29_InProgress ==
    LET t == Drained
    IN /\ drv.pktStarted => (~drv.dataPktReady /\ ~drv.formatPktReady)
       /\ t.pktStarted => (~t.dataPktReady /\ ~t.formatPktReady)
       /\ ModIsHigh(Mach) => ~processData(Mach, 122).pktStarted
       /\ ModIsHigh(Mach) => (isBusyValue(t) <=> Observed.inPkt)

\* the terminator of a packet has just been processed: isBusy() is false and
\* data-ready is set
C29_Witness ==
    /\ ModIsHigh(Mach)
    /\ uartRx = <<>>
    /\ ~isBusyValue(Mach)
    /\ drv.dataPktReady
    /\ previousData = 122
    /\ hist.terms = 1

(* Two terminators in a row *)
\* what a 0x7a does in receive mode as the first terminator after a byte, and
\* as the terminator that follows another
AsFirstTerminator(t) ==
    [(IF ~t.overLap THEN FirstTerminator(t) ELSE t) EXCEPT !.previousData = 122,
                                                            !.pktStarted = FALSE]
AsSecondTerminator(t) ==
    [(IF ~t.overLap THEN SecondTerminator(t) ELSE t) EXCEPT !.previousData = 122,
                                                             !.pktStarted = FALSE]

\* the driver, back in receive mode, as the next byte finds it
NextInReceive == setRxState(Mach')

\* one byte is taken from the serial port and processed
OneByteProcessed == Len(uartRx) = 1 /\ uartRx' = <<>>

\* C30: a 0x7a processed in receive mode closes a format packet exactly when
\* the byte before it in the inbound stream was 0x7a as well: after a 0x7a
\* processed in receive mode the next 0x7a is taken as the second one, after
\* any other byte, in receive or in transmit mode, and after a switch to
\* transmit mode, the next 0x7a is taken as a first terminator.
C30_Adjacency ==
    [][/\ (OneByteProcessed /\ uartRx[1] = 122 /\ ModIsHigh(Mach) /\ ModIsHigh(Mach'))
              => processData(Mach', 122) = AsSecondTerminator(Mach')
       /\ (OneByteProcessed /\ uartRx[1] /= 122)
              => processData(NextInReceive, 122) = AsFirstTerminator(NextInReceive)
       /\ setTx => processData(NextInReceive, 122) = AsFirstTerminator(NextInReceive)]_vars

(* Draining the serial port (SpecDrain): the chip's bytes arrive in groups *)
(* of any size while the sketch queries and retrieves                      *)
DrainChipSend ==
    /\ ModIsHigh(Mach)
    /\ chip.wire /= <<>>
    /\ \E n \in 1..Min(Len(chip.wire), MaxChunk - Len(uartRx)) :
           /\ uartRx' = uartRx \o SubSeq(chip.wire, 1, n)
           /\ chip' = [chip EXCEPT !.wire = SubSeq(@, n + 1, Len(@))]
    /\ got' = NoRet
    /\ UNCHANGED <<drv, previousData, intBits, hist>>

NextDrain ==
    \/ TxChipStart
    \/ DrainChipSend
    \/ Query
    \/ getData
    \/ getRaw
    \/ getFormat

SpecDrain == Init /\ [][NextDrain]_vars

\* the driver after the first n bytes of q, each processed after the one before
RECURSIVE ProcessedUpTo(_, _, _)
ProcessedUpTo(t, q, n) ==
    IF n = 0 THEN t ELSE processData(ProcessedUpTo(t, q, n - 1), q[n])

InOrder == ProcessedUpTo(Mach, uartRx, Len(uartRx))

\* C31: every query and every retrieval first processes all the bytes pending
\* in the serial queue, one by one in arrival order: the queue is empty
\* afterwards, the driver is as the bytes in that order leave it, with the
\* effect of the retrieval itself, and the result is taken from that state.
C31_DrainInOrder ==
    [][/\ (Query \/ getData \/ getRaw \/ getFormat) => uartRx' = <<>>
       /\ Query => Mach' = InOrder
       /\ getData => Mach' = getDataCopy(InOrder).t
       /\ getRaw => Mach' = getRawCopy(InOrder, 0).t
       /\ getFormat => Mach' = getFormatCopy(InOrder).t
       /\ (getData /\ got'.op = "getData") =>
              /\ InOrder.dataPktReady
              /\ got'.val = getDataCopy(InOrder).val
              /\ got'.data = getDataCopy(InOrder).data
       /\ (getFormat /\ got'.op = "getFormat") =>
              /\ InOrder.formatPktReady
              /\ got'.data = getFormatCopy(InOrder).data]_vars

\* two bytes are pending whose order matters: the last byte of a data packet
\* and its terminator
C31_Witness ==
    /\ Len(uartRx) = 2
    /\ uartRx[1] /= 122
    /\ uartRx[2] = 122
    /\ ~drv.dataPktReady
    /\ InOrder.dataPktReady
    /\ ~processData(processData(Mach, uartRx[2]), uartRx[1]).dataPktReady

(* Rejected packets *)
\* the packet the driver processed last was closed and failed the validation
\* of a data packet, and it is not the format packet that follows a valid
\* data packet
LastRejected ==
    /\ ~hist.inPkt
    /\ hist.terms >= 1
    /\ hist.n >= 1
    /\ ~hist.closedOk
    /\ ~hist.adj
    /\ ~hist.cut

\* C32: after a data packet was discarded (length mismatch, error bit or
\* overflow) data-ready is not set, and getData returns no data, until a later
\* data packet has passed the validation: neither a further 0x7a nor the two
\* terminators of a format packet set it from what was recorded before.
C32_RejectedNotReported ==
    /\ LastRejected => ~drv.dataPktReady
    /\ (got.op = "getData") => Accepted(hist).ok

(* The bit length of a transmit command *)
\* the bit length in the header of the transmit command w (0xf5 0x02, then the
\* stuffed low and high byte)
HeaderBitLen(w) ==
    LET h == Unstuffed(SubSeq(w, 3, Min(Len(w), 6)))
    IN h[1] + 256 * h[2]

\* C33: whenever irTx or sendRaw writes a 0xf5 0x02 command, the bit length in
\* the header that follows is in 8..4095; sendRaw with size 0 writes nothing
\* and leaves command-complete as it was.
C33_LegalBitLen ==
    (got.op \in {"irTx", "sendRaw"}) =>
        /\ HasPrefix(got.out, 245, 2) => HeaderBitLen(got.out) \in 8..4095
        /\ (got.op = "sendRaw" /\ got.inp.size = 0) =>
               /\ got.out = <<>>
               /\ Mach.cmdComplete = got.pre.cmdComplete

(* Completion and bytes left in the queue *)
\* irTx or sendRaw has just written a command and the chip has sent nothing
\* in transmit mode: every byte in the queue was sent in receive mode,
\* before the switch
JustCommanded ==
    /\ got.op \in {"irTx", "sendRaw"}
    /\ got.out /= <<>>
    /\ chip.acks = 0

\* C34: after an accepted irTx or sendRaw, cmdCompleted() returns true and
\* isBusy() false only if the chip has sent a 0x7a since the command was
\* written; bytes the chip sent in receive mode that are still in the queue
\* when the mode is switched do not complete the command.
C34_NoStaleCompletion ==
    JustCommanded => (~cmdCompletedValue(Drained) /\ isBusyValue(Drained))

(* A further 0x7a after the terminator of a data packet *)
\* a query processes one 0x7a that follows the terminator of a data packet
\* which passed the validation; the reception was not interrupted
StrayTerminator ==
    /\ uartRx = <<122>>
    /\ ModIsHigh(Mach)
    /\ ~hist.inPkt
    /\ hist.terms >= 1
    /\ hist.closedOk
    /\ ~hist.cut
    /\ Query

\* C35: a further 0x7a after the terminator of a data packet does not set
\* data-ready again once the packet was consumed by getData or getRaw or
\* discarded by clrData, and for a packet not yet consumed it neither clears
\* data-ready nor changes what getData returns.
C35_AtMostOnce ==
    [][StrayTerminator =>
          /\ ~drv.dataPktReady => ~drv'.dataPktReady
          /\ drv.dataPktReady =>
                 /\ drv'.dataPktReady
                 /\ getDataCopy(Mach').val = getDataCopy(Mach).val
                 /\ getDataCopy(Mach').bitLen = getDataCopy(Mach).bitLen
                 /\ getDataCopy(Mach').data = getDataCopy(Mach).data]_vars

(* Indices of the circular buffer *)
InBuffer(pos) == pos \in 0..(BC7215_BUFFER_SIZE - 1)

\* C36: the last written, start, data start and data end positions are always
\* inside the array, and every byte that getData, getRaw (for sizes up to
\* 0x200) and getFormat copy is read at an index inside the array.
C36_InBounds ==
    /\ InBuffer(drv.lastWritingPos)
    /\ InBuffer(drv.startPos)
    /\ InBuffer(drv.datStartPos)
    /\ InBuffer(drv.datEndPos)
    /\ (got.op \in {"getData", "getRaw", "getFormat"})
           => \A k \in 1..Len(got.data) : got.data[k] /= -1

(***************************************************************************)
(* BC7215AC: initialisation and commands (SpecAc).  The fields of the      *)
(* BC7215AC object and the state of the matcher library are kept in hist:  *)
(*   initOK, sampleReady   fields of the object                            *)
(*   matched               the matcher holds a base packet                 *)
(*   last                  what the most recent initialisation returned    *)
(* The matcher library (bc7215_ac_lib.h) is not part of the sources: each  *)
(* of its functions returns any value its header allows.                   *)
(***************************************************************************)
NULL == "NULL"

\* packets the matcher hands out: a data packet, and a combined message
\* (bitLen = 0) that points to a format and a data packet
AcBaseFmt == Ramp(96, 33)
AcBaseData == TxPacket(8, 2)
AcCombined == [bitLen |-> 0, fmt |-> Ramp(64, 33), datPkt |-> TxPacket(9, 3)]

\* pointers the matcher returns, and the packet each points to
AcPackets == {"data", "combined"}

At(p) == IF p = "combined" THEN AcCombined ELSE AcBaseData

AcInit == [initOK |-> FALSE, sampleReady |-> FALSE, matched |-> FALSE, last |-> "none"]

\* BC7215AC ac(bc7215): the constructor calls bc7215.setTx()
InitAc ==
    /\ drv = [f \in DOMAIN DrvInit(0, BUSY_NC) |-> setTxState(DrvInit(0, BUSY_NC))[f]]
    /\ previousData = 0
    /\ intBits \in {16, 32}
    /\ uartRx = <<>>
    /\ chip = ChipInit
    /\ hist = AcInit
    /\ got = NoRet

\* startCapture: setRx, setRxMode(1), clrData, clrFormat
startCaptureState(t) ==
    [setRxModeRun(setRxState(t), 1).t EXCEPT !.dataPktReady = FALSE, !.formatPktReady = FALSE]

startCapture ==
    /\ Install(startCaptureState(Mach))
    /\ hist' = [hist EXCEPT !.sampleReady = FALSE]
    /\ got' = [op |-> "startCapture", out |-> setRxModeRun(setRxState(Mach), 1).out]
    /\ UNCHANGED <<uartRx, chip>>

\* stopCapture: setTx
stopCapture ==
    /\ Install(setTxState(Mach))
    /\ UNCHANGED <<uartRx, chip>>

\* the object and the matcher after an initialisation that returned val and
\* left ok in initOK
AcAfter(ok, val, matched, sample) ==
    [initOK |-> ok, sampleReady |-> sample, matched |-> matched,
     last |-> IF val THEN "true" ELSE "false"]

InitRet(op, inp, val) == [op |-> op, inp |-> inp, val |-> val]

\* init(): stopCapture, then the matcher if a sample is ready
init ==
    /\ stopCapture
    /\ IF hist.sampleReady
       THEN \E r \in BOOLEAN :
                /\ hist' = AcAfter(r, r, r, TRUE)
                /\ got' = InitRet("init", <<>>, r)
       ELSE /\ hist' = AcAfter(hist.initOK, FALSE, hist.matched, FALSE)
            /\ got' = InitRet("init", <<>>, FALSE)

\* init(data, format): the sample is copied, sampleReady set, then init()
initSample ==
    /\ stopCapture
    /\ \E r \in BOOLEAN :
           /\ hist' = AcAfter(r, r, r, TRUE)
           /\ got' = InitRet("init(data, format)", <<>>, r)

\* init(cnt, data, format): initOK cleared; the matcher is asked for cnt < 4
initMulti ==
    /\ stopCapture
    /\ \E cnt \in {1, 4} :
           IF cnt < 4
           THEN \E r \in BOOLEAN :
                    /\ hist' = AcAfter(r, r, r, hist.sampleReady)
                    /\ got' = InitRet("init(cnt, data, format)", cnt, r)
           ELSE /\ hist' = AcAfter(FALSE, FALSE, hist.matched, hist.sampleReady)
                /\ got' = InitRet("init(cnt, data, format)", cnt, FALSE)

\* matchNext: initOK = bc7215_ac_find_next()
matchNext ==
    /\ \E r \in BOOLEAN :
           /\ hist' = AcAfter(r, r, r, hist.sampleReady)
           /\ got' = InitRet("matchNext", <<>>, r)
    /\ UNCHANGED <<drv, previousData, intBits, uartRx, chip>>

\* initPredef(index) with one predefined configuration: initOK cleared, then
\* init(data, format) for an index in range
initPredef ==
    \E index \in {0, 1} :
        IF index < 1
        THEN /\ stopCapture
             /\ \E r \in BOOLEAN :
                    /\ hist' = AcAfter(r, r, r, TRUE)
                    /\ got' = InitRet("initPredef", index, r)
        ELSE /\ hist' = AcAfter(FALSE, FALSE, hist.matched, hist.sampleReady)
             /\ got' = InitRet("initPredef", index, FALSE)
             /\ UNCHANGED <<drv, previousData, intBits, uartRx, chip>>

\* sendAcCmd(dataPkt), dataPkt not NULL
sendAcCmdRun(t, dataPkt) ==
    LET fmt == IF At(dataPkt).bitLen = 0 THEN At(dataPkt).fmt ELSE AcBaseFmt
        dat == IF At(dataPkt).bitLen = 0 THEN At(dataPkt).datPkt ELSE At(dataPkt)
        a == loadFormatRun(t, fmt)
        b == irTxRun(a.t, dat)
    IN [t |-> b.t, out |-> a.out \o b.out]

\* a command that found initOK set, asked the matcher and got dataPkt; through
\* a NULL pointer sendAcCmd reads dataPkt->bitLen at address 0: the program
\* stops or goes on with whatever it read there
Commanded(op, asked, dataPkt) ==
    IF dataPkt = NULL
    THEN /\ \E p \in AcPackets \cup {NULL} :
                LET r == IF p = NULL THEN [t |-> Mach, out |-> <<>>] ELSE sendAcCmdRun(Mach, p)
                IN /\ Install(r.t)
                   /\ got' = [op |-> op, asked |-> asked, passed |-> NULL, val |-> NULL,
                              out |-> r.out]
         /\ UNCHANGED <<uartRx, chip, hist>>
    ELSE LET r == sendAcCmdRun(Mach, dataPkt)
         IN /\ Install(r.t)
            /\ got' = [op |-> op, asked |-> asked, passed |-> dataPkt, val |-> dataPkt,
                       out |-> r.out]
            /\ UNCHANGED <<uartRx, chip, hist>>

NotCommanded(op) ==
    /\ got' = [op |-> op, asked |-> FALSE, passed |-> "none", val |-> NULL, out |-> <<>>]
    /\ UNCHANGED <<drv, previousData, intBits, uartRx, chip, hist>>

setTo ==
    IF hist.initOK
    THEN \E p \in AcPackets : Commanded("setTo", TRUE, p)
    ELSE NotCommanded("setTo")

\* on(): the base data packet when the matcher has no ON packet
onPacket(p) == IF p = NULL THEN (IF hist.matched THEN "data" ELSE NULL) ELSE p

on ==
    IF hist.initOK
    THEN \E p \in AcPackets \cup {NULL} : Commanded("on", TRUE, onPacket(p))
    ELSE NotCommanded("on")

off ==
    IF hist.initOK
    THEN \E p \in AcPackets \cup {NULL} : Commanded("off", TRUE, p)
    ELSE NotCommanded("off")

NextAc ==
    \/ startCapture
    \/ init
    \/ initSample
    \/ initMulti
    \/ matchNext
    \/ initPredef
    \/ setTo
    \/ on
    \/ off

SpecAc == InitAc /\ [][NextAc]_vars

\* C37: setTo, on and off ask the matcher, write to the chip and return a
\* packet only if the most recent initialisation (init in any form,
\* initPredef, matchNext) returned true; otherwise they return NULL and
\* write nothing.
C37_InitGate ==
    (got.op \in {"setTo", "on", "off"} /\ hist.last /= "true") =>
        /\ ~got.asked
        /\ got.val = NULL
        /\ got.out = <<>>

\* C40: when setTo, on or off calls sendAcCmd, the pointer it passes is not
\* NULL, whatever the matcher returned.
C40_NoNullPacket ==
    (got.op \in {"setTo", "on", "off"} /\ got.asked) => got.passed /= NULL

(***************************************************************************)
(* BC7215AC: capturing a sample (SpecCapture).  signalCaptured calls       *)
(* formatReady, getFormat and getData (or formatReady and dataReady), and  *)
(* each of them begins with statusUpdate: bytes that arrive between two    *)
(* of the calls are processed by the later one.  One action per call; the  *)
(* position inside signalCaptured is hist.pc and the value getFormat       *)
(* returned is hist.fmt.  The chip sends up to MaxBurst bytes between two  *)
(* calls.                                                                  *)
(***************************************************************************)
CapData1 == DataBytes(<<255>>, 0, 2)
CapData49 == DataBytes(Ramp(1, 49), 0, 392)
CapFormat == Ramp(96, 30) \o <<1, 2, 3>>

\* what the chip sends in receive sub-mode 1: a data packet, 0x7a, a format
\* packet, 0x7a 0x7a; alone, cut after the data packet, or followed by the
\* data packet of the next signal
Composite(d) == StuffedBytes(d) \o <<122>> \o StuffedBytes(CapFormat) \o <<122, 122>>

CaptureMenu ==
    { Composite(CapData1),
      Composite(CapData49),
      StuffedBytes(CapData1) \o <<122>>,
      Composite(CapData1) \o StuffedBytes(CapData49) \o <<122>> }

CapInit == [sampleReady |-> FALSE, pc |-> "idle", fmt |-> 0]

InitCapture ==
    /\ drv = [f \in DOMAIN DrvInit(0, BUSY_NC) |-> setTxState(DrvInit(0, BUSY_NC))[f]]
    /\ previousData = 0
    /\ intBits \in {16, 32}
    /\ uartRx = <<>>
    /\ chip = [stage |-> "start", wire |-> <<>>]
    /\ hist = CapInit
    /\ got = NoRet

\* startCapture() between two calls of signalCaptured
capStart ==
    /\ hist.pc = "idle"
    /\ Install(startCaptureState(Mach))
    /\ hist' = [hist EXCEPT !.sampleReady = FALSE]
    /\ got' = [op |-> "startCapture", out |-> setRxModeRun(setRxState(Mach), 1).out]
    /\ UNCHANGED <<uartRx, chip>>

\* a signal reaches the chip
capSignal ==
    /\ ModIsHigh(Mach)
    /\ chip.stage = "start"
    /\ \E w \in CaptureMenu : chip' = [stage |-> "sent", wire |-> w]
    /\ got' = NoRet
    /\ UNCHANGED <<drv, previousData, intBits, uartRx, hist>>

\* the chip sends some of its bytes
capArrive ==
    /\ ModIsHigh(Mach)
    /\ chip.wire /= <<>>
    /\ \E n \in 1..Min(Len(chip.wire), MaxBurst - Len(uartRx)) :
           /\ uartRx' = uartRx \o SubSeq(chip.wire, 1, n)
           /\ chip' = [chip EXCEPT !.wire = SubSeq(@, n + 1, Len(@))]
    /\ got' = NoRet
    /\ UNCHANGED <<drv, previousData, intBits, hist>>

\* if (bc7215.formatReady())
scFormatReady ==
    /\ hist.pc = "idle"
    /\ Install(Drained)
    /\ uartRx' = <<>>
    /\ hist' = [hist EXCEPT !.pc = IF formatReadyValue(Drained) THEN "getFormat" ELSE "dataReady"]
    /\ got' = NoRet
    /\ UNCHANGED chip

\* bc7215.getFormat(rcvdFmt)
scGetFormat ==
    /\ hist.pc = "getFormat"
    /\ Install(getFormatCopy(Drained).t)
    /\ uartRx' = <<>>
    /\ hist' = [hist EXCEPT !.pc = "getData", !.fmt = getFormatCopy(Drained).val]
    /\ got' = NoRet
    /\ UNCHANGED chip

\* rcvdStatus = bc7215.getData(rcvdData); sampleReady = true; return true
scGetData ==
    /\ hist.pc = "getData"
    /\ Install(getDataCopy(Drained).t)
    /\ uartRx' = <<>>
    /\ hist' = [hist EXCEPT !.pc = "idle", !.sampleReady = TRUE]
    /\ got' = [op |-> "signalCaptured", val |-> TRUE, fmt |-> hist.fmt,
               dat |-> getDataCopy(Drained).val,
               wrote |-> Len(getDataCopy(Drained).data),
               onlyData |-> FALSE, out |-> <<>>]
    /\ UNCHANGED chip

\* else if (bc7215.dataReady()) { setRxMode(1); clrData(); clrFormat(); }
\* return false
scDataReady ==
    /\ hist.pc = "dataReady"
    /\ Install(IF dataReadyValue(Drained)
               THEN [setRxModeRun(Drained, 1).t EXCEPT !.dataPktReady = FALSE,
                                                       !.formatPktReady = FALSE]
               ELSE Drained)
    /\ uartRx' = <<>>
    /\ hist' = [hist EXCEPT !.pc = "idle"]
    /\ got' = [op |-> "signalCaptured", val |-> FALSE, fmt |-> 0, dat |-> 0, wrote |-> 0,
               onlyData |-> dataReadyValue(Drained),
               out |-> IF dataReadyValue(Drained) THEN setRxModeRun(Drained, 1).out ELSE <<>>]
    /\ UNCHANGED chip

NextCapture ==
    \/ capStart
    \/ capSignal
    \/ capArrive
    \/ scFormatReady
    \/ scGetFormat
    \/ scGetData
    \/ scDataReady

SpecCapture == InitCapture /\ [][NextCapture]_vars

\* C38: signalCaptured returns true only if in that call getFormat and
\* getData both stored a packet (neither returned 0xFF); when only a data
\* packet is ready it returns false, writes receive sub-mode 1 to the chip
\* and leaves both ready flags cleared.
C38_CompleteSample ==
    got.op = "signalCaptured" =>
        /\ got.val => (got.fmt /= 255 /\ got.dat /= 255)
        /\ (~got.val /\ got.onlyData) =>
               (got.out = <<1>> /\ ~drv.dataPktReady /\ ~drv.formatPktReady)

\* C39: whatever arrives between the calls inside signalCaptured, getData
\* writes at most BC7215_MAX_RX_DATA_SIZE payload bytes into the sample.
C39_SampleFits ==
    (got.op = "signalCaptured" /\ got.val) => got.wrote <= BC7215_MAX_RX_DATA_SIZE

====
